---- MODULE Spec2Model ----
(***************************************************************************)
(* Model of the SSE streaming contract of the interview application:       *)
(*   - the backend stream producer generate_stream_events                  *)
(*     (agents/router.py, described in the repository's documentation),    *)
(*   - the frontend stream consumer AgentStreamService.streamAnswer        *)
(*     (interviewweb/src/app/interview/services/agent-stream.service.ts).  *)
(* Text is modelled as a sequence of one-character strings.                *)
(***************************************************************************)
EXTENDS Integers, Sequences, FiniteSets, TLC

\* ------------------------------------------------------------------------
\* Bounds of the model
\* ------------------------------------------------------------------------
MaxAnswerLen == 3

MaxChunkSize == 2

MaxEvents == 2

MaxDeliveries == 3

MaxSegments == 3

\* DownloadProgress events the browser dispatches to the calls of a component
MaxProgressEvents == 2

\* ------------------------------------------------------------------------
\* Generic helpers on sequences
\* ------------------------------------------------------------------------
Min(a, b) == IF a <= b THEN a ELSE b

SeqsUpTo(S, n) == UNION { [1..k -> S] : k \in 0..n }

RECURSIVE Flatten(_)
Flatten(ss) == IF ss = <<>> THEN <<>> ELSE Head(ss) \o Flatten(Tail(ss))

IsPrefixOf(p, s) == Len(p) <= Len(s) /\ SubSeq(s, 1, Len(p)) = p

\* ========================================================================
\* PART 1: the stream producer (server side)
\* ========================================================================
AnswerChars == {"a", "b"}

Answers == SeqsUpTo(AnswerChars, MaxAnswerLen)

Letters(q) == { q[k] : k \in 1..Len(q) }

\* the texts an agent can return for a question: an answer is about its
\* question, which the model renders by writing it with the question's letters
AnswersTo(q) == SeqsUpTo(Letters(q), MaxAnswerLen)

ChunkSizes == 1..MaxChunkSize

AgentIds == {"product_manager", "technical", "architect", "coding", "behavioral", "system_design"}

\* the agents the classification step is let to pick in the model
RoutedAgents == {"technical", "system_design"}

DefaultAgent == "technical"

GenericFollowUps == "generic"

FollowUpChoices == {"llm"}

TerminalTypes == {"complete", "error"}

VARIABLES
    pc,          \* position of the producer in its pipeline
    emitted,     \* the StreamEvents yielded so far, in order
    answer,      \* the full answer text returned by the selected agent
    chunk_size,  \* the configured chunk length
    offset,      \* loop variable i of the chunking loop
    agent,       \* the selected agent identifier
    failed       \* the set of pipeline steps that failed in this run

pvars == <<pc, emitted, answer, chunk_size, offset, agent, failed>>

\* state of one streamAnswer call of the consumer (PART 2)
VARIABLES
    body,        \* the whole response text the server sends
    status_ok,   \* TRUE when the HTTP status of the response is 2xx
    received,    \* number of characters of body that DownloadProgress events have reported
    deliveries,  \* number of DownloadProgress events handed to the handler
    http,        \* state of the HttpClient observable of the POST
    subject      \* the Subject of the call and what its subscriber was sent

cvars == <<body, status_ok, received, deliveries, http, subject>>

\* the other streamAnswer calls in flight (PART 2)
VARIABLES
    dispatching, \* the call whose HTTP events the browser is dispatching
    otherCalls   \* the state of the calls in flight beside it

kvars == <<dispatching, otherCalls>>

\* state of the buffering consumer InterviewService.streamAnswer (PART 2)
VARIABLES
    buffer       \* the text received and not yet split into events

bvars == <<buffer>>

\* state of the component that subscribes to streamAnswer (PART 3)
VARIABLES
    component,   \* the component the router has created
    destroyed,   \* TRUE once ngOnDestroy has run
    streams,     \* the streamAnswer calls the component has made, in order
    room,        \* the fields of the InterviewRoomComponent
    search       \* the fields of the SearchComponent or FrequentComponent

uvars == <<component, destroyed, streams, room, search>>

\* the request an endpoint of the server received, and the server's other
\* request task (PART 1)
VARIABLES
    question,    \* the question text of the request
    endpoint,    \* the endpoint the request was posted to
    reply,       \* the HTTP reply of the endpoint, when it is not a stream
    running,     \* the request whose task the event loop is running
    suspended    \* the locals of the tasks suspended at an await

evars == <<question, endpoint, reply, running, suspended>>

xvars == <<evars, kvars, bvars, uvars>>

\* the state of the server and the state of the web client
svars == <<pvars, evars>>

wvars == <<cvars, kvars, bvars, uvars>>

\* everything but the state of the component
nvars == <<svars, cvars, kvars, bvars>>

vars == <<pc, emitted, answer, chunk_size, offset, agent, failed,
          body, status_ok, received, deliveries, http, subject, xvars>>

\* one StreamEvent; fields a type does not carry hold a neutral value
Event(type, a, chunk, is_final, text) ==
    [event_type |-> type, agent |-> a, chunk |-> chunk, is_final |-> is_final, text |-> text]

Plain(type, a) == Event(type, a, <<>>, FALSE, <<>>)

\* faulty variant: the slice ends one character early
Slice_OffByOne(s, i, n) == SubSeq(s, i + 1, Min(i + n, Len(s)) - 1)

\* Python slice s[i : i + n] with 0-based i: the end is clamped to len(s)
Slice(s, i, n) == SubSeq(s, i + 1, Min(i + n, Len(s)))

\* no request is being produced (the view of the consumer alone)
ProducerIdle ==
    /\ pc = "Idle"
    /\ emitted = <<>>
    /\ answer = <<>>
    /\ chunk_size = 1
    /\ offset = 0
    /\ agent = "none"
    /\ failed = {}

ProducerInit ==
    /\ pc = "Accepted"
    /\ emitted = <<>>
    /\ answer = <<>>
    /\ chunk_size \in ChunkSizes
    /\ offset = 0
    /\ agent = "none"
    /\ failed = {}

\* step 1: emit start, which echoes the question
EmitStart ==
    /\ pc = "Accepted"
    /\ emitted' = Append(emitted, Event("start", "none", <<>>, FALSE, question))
    /\ pc' = "Start"
    /\ UNCHANGED <<answer, chunk_size, offset, agent, failed>>
    /\ UNCHANGED <<cvars, xvars>>

\* faulty variant: a failed classification falls back to the first agent of
\* the registry
RoutingResult_FirstAgent(ok, classified) == IF ok THEN classified ELSE "product_manager"

\* what the routing step returns: the classified agent, or the default agent
\* when the classification itself failed
RoutingResult(ok, classified) == IF ok THEN classified ELSE DefaultAgent

\* step 2: select an agent and emit routing
Route ==
    /\ pc = "Start"
    /\ \E ok \in BOOLEAN, classified \in RoutedAgents :
          /\ agent' = RoutingResult(ok, classified)
          /\ failed' = IF ok THEN failed ELSE failed \cup {"routing"}
          /\ emitted' = Append(emitted, Plain("routing", RoutingResult(ok, classified)))
    /\ pc' = "Routed"
    /\ UNCHANGED <<answer, chunk_size, offset>>
    /\ UNCHANGED <<cvars, xvars>>

\* step 3: emit processing
EmitProcessing ==
    /\ pc = "Routed"
    /\ emitted' = Append(emitted, Plain("processing", agent))
    /\ pc' = "Processing"
    /\ UNCHANGED <<answer, chunk_size, offset, agent, failed>>
    /\ UNCHANGED <<cvars, xvars>>

\* step 4a: the selected agent returns the full answer text
GenerateAnswer ==
    /\ pc = "Processing"
    /\ \E a \in AnswersTo(question) : answer' = a
    /\ offset' = 0
    /\ pc' = "Streaming"
    /\ UNCHANGED <<emitted, chunk_size, agent, failed>>
    /\ UNCHANGED <<cvars, xvars>>

\* faulty variant: the generator goes on after the error event
AfterError_NoReturn == "Streaming"

\* the position reached after the error event has been emitted
AfterError == "Failed"

\* faulty variant: a failed LLM call is answered with an empty generic answer
AnswerFails_GenericAnswer ==
    /\ pc = "Processing"
    /\ answer' = <<>>
    /\ offset' = 0
    /\ failed' = failed \cup {"answer"}
    /\ pc' = "Streaming"
    /\ UNCHANGED <<emitted, chunk_size, agent>>
    /\ UNCHANGED <<cvars, xvars>>

\* step 4a failing: the LLM call raises; one error event ends the sequence
AnswerFails ==
    /\ pc = "Processing"
    /\ emitted' = Append(emitted, Event("error", agent, <<>>, FALSE, <<"m">>))
    /\ failed' = failed \cup {"answer"}
    /\ pc' = AfterError
    /\ UNCHANGED <<answer, chunk_size, offset, agent>>
    /\ UNCHANGED <<cvars, xvars>>

\* faulty variant: is_final computed with a strict comparison
ContentEvent_StrictFinal(s, i, n) ==
    Event("content", "none", Slice(s, i, n), i + n > Len(s), <<>>)

\* the content event for the chunk starting at 0-based offset i
ContentEvent(s, i, n) == Event("content", "none", Slice(s, i, n), i + n >= Len(s), <<>>)

\* step 4b: one iteration of the chunking loop
EmitContent ==
    /\ pc = "Streaming"
    /\ offset < Len(answer)
    /\ emitted' = Append(emitted, ContentEvent(answer, offset, chunk_size))
    /\ offset' = offset + chunk_size
    /\ UNCHANGED <<pc, answer, chunk_size, agent, failed>>
    /\ UNCHANGED <<cvars, xvars>>

\* faulty variant: answer_complete is emitted without waiting for the loop
EmitAnswerComplete_Unguarded ==
    /\ pc = "Streaming"
    /\ emitted' = Append(emitted, Event("answer_complete", agent, <<>>, FALSE, answer))
    /\ UNCHANGED <<pc, answer, chunk_size, offset, agent, failed>>
    /\ UNCHANGED <<cvars, xvars>>

\* step 5: emit answer_complete with the full answer
EmitAnswerComplete ==
    /\ pc = "Streaming"
    /\ offset >= Len(answer)
    /\ emitted' = Append(emitted, Event("answer_complete", agent, <<>>, FALSE, answer))
    /\ pc' = "AnswerComplete"
    /\ UNCHANGED <<answer, chunk_size, offset, agent, failed>>
    /\ UNCHANGED <<cvars, xvars>>

\* what the follow-up step returns: the generated list, or the generic list
\* when the generation failed
FollowUpResult(ok, generated) == IF ok THEN generated ELSE GenericFollowUps

\* step 6: follow-up suggestions
EmitFollowUps ==
    /\ pc = "AnswerComplete"
    /\ \E ok \in BOOLEAN, generated \in FollowUpChoices :
          /\ emitted' = Append(emitted,
                Event("follow_ups", agent, <<>>, FALSE, <<FollowUpResult(ok, generated)>>))
          /\ failed' = IF ok THEN failed ELSE failed \cup {"follow_ups"}
    /\ pc' = "FollowUps"
    /\ UNCHANGED <<answer, chunk_size, offset, agent>>
    /\ UNCHANGED <<cvars, xvars>>

\* step 7: emit complete
EmitComplete ==
    /\ pc = "FollowUps"
    /\ emitted' = Append(emitted, Plain("complete", agent))
    /\ pc' = "Completed"
    /\ UNCHANGED <<answer, chunk_size, offset, agent, failed>>
    /\ UNCHANGED <<cvars, xvars>>

ProducerNext ==
    \/ EmitStart
    \/ Route
    \/ EmitProcessing
    \/ GenerateAnswer
    \/ AnswerFails
    \/ EmitContent
    \/ EmitAnswerComplete
    \/ EmitFollowUps
    \/ EmitComplete



ProducerDone == pc \in {"Completed", "Failed"}

Types(evs) == [k \in 1..Len(evs) |-> evs[k].event_type]

\* the chunk values of the content events of a sequence, in order
ChunksOf(evs) ==
    LET cs == SelectSeq(evs, LAMBDA ev : ev.event_type = "content")
    IN  [j \in 1..Len(cs) |-> cs[j].chunk]

\* ------------------------------------------------------------------------
\* The two endpoints and the validation of the request
\* ------------------------------------------------------------------------
\* the configured minimum length of a question
MinQuestionLength == 5

\* questions one character too short and questions just long enough, each
\* written with one letter, and a question written with both letters
Questions ==
    { [k \in 1..n |-> c] : c \in AnswerChars,
                           n \in (MinQuestionLength - 1)..MinQuestionLength }
    \cup { [k \in 1..MinQuestionLength |-> IF k % 2 = 1 THEN "a" ELSE "b"] }

AcceptedQuestions == { q \in Questions : Len(q) >= MinQuestionLength }

\* POST /api/agents/answer-stream and POST /api/agents/answer
Endpoints == {"stream", "sync"}

NoReply == [status |-> 0, detail |-> "", answer |-> <<>>]

BadRequest ==
    [status |-> 400, detail |-> "Question must be at least 5 characters long",
     answer |-> <<>>]

ServerError == [status |-> 500, detail |-> "Error processing question", answer |-> <<>>]

JsonAnswer(a) == [status |-> 200, detail |-> "", answer |-> a]

\* faulty variant: only the synchronous endpoint validates the question
Rejects_SyncOnly(ep, q) == ep = "sync" /\ Len(q) < MinQuestionLength

\* the validation both endpoints apply to the request before the pipeline
Rejects(ep, q) == Len(q) < MinQuestionLength

\* no request has been received by an endpoint, no other task exists
NoRequest ==
    /\ question = <<>>
    /\ endpoint = "stream"
    /\ reply = NoReply
    /\ running = 1
    /\ suspended = <<>>

\* the streaming endpoint has accepted a question
StreamRequest ==
    /\ question \in AcceptedQuestions
    /\ endpoint = "stream"
    /\ reply = NoReply
    /\ running = 1
    /\ suspended = <<>>

\* a request has reached one of the two endpoints
EndpointInit ==
    /\ pc = "Received"
    /\ emitted = <<>>
    /\ answer = <<>>
    /\ chunk_size \in ChunkSizes
    /\ offset = 0
    /\ agent = "none"
    /\ failed = {}
    /\ question \in Questions
    /\ endpoint \in Endpoints
    /\ reply = NoReply
    /\ running = 1
    /\ suspended = <<>>

\* the endpoint validates the request: a short question is answered with
\* 400 and the pipeline is never entered
ValidateRequest ==
    /\ pc = "Received"
    /\ IF Rejects(endpoint, question)
       THEN /\ reply' = BadRequest
            /\ pc' = "Rejected"
       ELSE /\ reply' = reply
            /\ pc' = IF endpoint = "stream" THEN "Accepted" ELSE "SyncAccepted"
    /\ UNCHANGED <<emitted, answer, chunk_size, offset, agent, failed>>
    /\ UNCHANGED <<question, endpoint, running, suspended>>
    /\ UNCHANGED wvars

\* the synchronous endpoint runs the pipeline and returns one JSON document
SyncAnswer ==
    /\ pc = "SyncAccepted"
    /\ \/ \E ok \in BOOLEAN, classified \in RoutedAgents, a \in AnswersTo(question) :
             /\ agent' = RoutingResult(ok, classified)
             /\ failed' = IF ok THEN failed ELSE failed \cup {"routing"}
             /\ answer' = a
             /\ reply' = JsonAnswer(a)
       \/ /\ failed' = failed \cup {"answer"}
          /\ reply' = ServerError
          /\ UNCHANGED <<agent, answer>>
    /\ pc' = "Replied"
    /\ UNCHANGED <<emitted, chunk_size, offset>>
    /\ UNCHANGED <<question, endpoint, running, suspended>>
    /\ UNCHANGED wvars

EndpointNext ==
    \/ ValidateRequest
    \/ SyncAnswer
    \/ ProducerNext

\* ------------------------------------------------------------------------
\* Two requests served concurrently: each request is one asynchronous task
\* with its own locals; the event loop runs one task at a time and may
\* resume another one wherever the running task awaits or yields
\* ------------------------------------------------------------------------
\* the locals of the task the event loop is running
RunningTask ==
    [id |-> running, pc |-> pc, emitted |-> emitted, answer |-> answer,
     offset |-> offset, agent |-> agent, failed |-> failed, question |-> question]

\* the locals of the task of a request the endpoint has just accepted
NewTask(i, q) ==
    [id |-> i, pc |-> "Accepted", emitted |-> <<>>, answer |-> <<>>,
     offset |-> 0, agent |-> "none", failed |-> {}, question |-> q]

\* faulty variant: the selected agent is kept in one module-level variable
\* that all tasks share
ResumedAgent_Shared(t) == agent

\* the selected agent is a local of the task
ResumedAgent(t) == t.agent

\* two requests with different questions have been accepted
ConcurrentInit ==
    /\ ProducerInit
    /\ endpoint = "stream"
    /\ reply = NoReply
    /\ running = 1
    /\ \E q1 \in AcceptedQuestions, q2 \in AcceptedQuestions :
          /\ Letters(q1) \cap Letters(q2) = {}
          /\ question = q1
          /\ suspended = <<NewTask(2, q2)>>

\* the running task is suspended and the event loop resumes the other task
Switch ==
    /\ suspended # <<>>
    /\ LET t == Head(suspended)
       IN  /\ running' = t.id
           /\ pc' = t.pc
           /\ emitted' = t.emitted
           /\ answer' = t.answer
           /\ offset' = t.offset
           /\ agent' = ResumedAgent(t)
           /\ failed' = t.failed
           /\ question' = t.question
    /\ suspended' = Append(Tail(suspended), RunningTask)
    /\ UNCHANGED <<chunk_size, endpoint, reply>>
    /\ UNCHANGED wvars

ConcurrentNext ==
    \/ ProducerNext
    \/ Switch

\* ========================================================================
\* PART 2: the stream consumer AgentStreamService.streamAnswer
\* ========================================================================
\* the events a response can carry; the JSON text of event e is {e}
EventIds == {"s", "e"}

DataPrefix == <<"d", "a", "t", "a", ":", " ">>

Delimiter == <<"\n", "\n">>

\* one event on the wire: data: {json}\n\n
Frame(e) == DataPrefix \o <<"{", e, "}">> \o Delimiter

RECURSIVE Wire(_)
Wire(es) == IF es = <<>> THEN <<>> ELSE Frame(Head(es)) \o Wire(Tail(es))

\* the response texts of the model: one to MaxEvents complete events
EventSeqs == SeqsUpTo(EventIds, MaxEvents) \ {<<>>}

\* the body of a non-2xx response: a JSON document, not SSE framing
DetailBody == <<"{", "d", "}">>

\* String.prototype.indexOf("\n\n"): 1-based position of the first
\* occurrence of the delimiter, 0 when there is none
IndexOfDelimiter(t) ==
    LET hits == { k \in 1..(Len(t) - 1) : t[k] = "\n" /\ t[k + 1] = "\n" }
    IN  IF hits = {} THEN 0 ELSE CHOOSE k \in hits : \A j \in hits : k <= j

\* String.prototype.split("\n\n")
RECURSIVE Split(_)
Split(t) ==
    LET i == IndexOfDelimiter(t)
    IN  IF i = 0 THEN <<t>>
        ELSE <<SubSeq(t, 1, i - 1)>> \o Split(SubSeq(t, i + 2, Len(t)))

\* String.prototype.startsWith
StartsWith(line, prefix) ==
    Len(line) >= Len(prefix) /\ SubSeq(line, 1, Len(prefix)) = prefix

\* String.prototype.substring(k): drops the first k characters
Substring(line, k) == SubSeq(line, k + 1, Len(line))

JsonWhitespace == {" ", "\n"}

RECURSIVE TrimLeft(_)
TrimLeft(t) ==
    IF t # <<>> /\ Head(t) \in JsonWhitespace THEN TrimLeft(Tail(t)) ELSE t

RECURSIVE TrimRight(_)
TrimRight(t) ==
    IF t # <<>> /\ t[Len(t)] \in JsonWhitespace
    THEN TrimRight(SubSeq(t, 1, Len(t) - 1)) ELSE t

SyntaxError == "SyntaxError"

\* JSON.parse: whitespace around the document is skipped; the document must
\* be one complete object, anything else throws
JsonParse(t) ==
    LET doc == TrimRight(TrimLeft(t))
    IN  IF Len(doc) = 3 /\ doc[1] = "{" /\ doc[3] = "}" /\ doc[2] \in EventIds
        THEN doc[2] ELSE SyntaxError

\* rxjs Subject: next, error and complete reach the subscriber only while
\* the subject is not stopped; error and complete stop it
\* faulty variant: the notification reaches the subscriber of the call
\* although it has unsubscribed
Notify_KeepsObserver(sub, n) == Append(sub.out, n)

\* a Subject passes a notification to its current observers: the subscriber
\* of the call gets it unless it has unsubscribed
Notify(sub, n) == IF sub.subscribed THEN Append(sub.out, n) ELSE sub.out

SubjectNext(sub, e) ==
    IF sub.isStopped THEN sub
    ELSE [sub EXCEPT !.out = Notify(sub, [kind |-> "next", ev |-> e])]

\* faulty variant: complete is passed on although the subject has stopped
SubjectComplete_Unguarded(sub) ==
    [sub EXCEPT !.isStopped = TRUE,
                !.out = Notify(sub, [kind |-> "complete", ev |-> "-"])]

SubjectComplete(sub) ==
    IF sub.isStopped THEN sub
    ELSE [sub EXCEPT !.isStopped = TRUE,
                     !.out = Notify(sub, [kind |-> "complete", ev |-> "-"])]

SubjectError(sub, err) ==
    IF sub.isStopped THEN sub
    ELSE [sub EXCEPT !.isStopped = TRUE,
                     !.out = Notify(sub, [kind |-> "error", ev |-> err])]

\* the Subject a streamAnswer call creates, with the caller subscribed to it
NewSubject == [isStopped |-> FALSE, subscribed |-> TRUE, out |-> <<>>]

\* faulty variant: no try/catch around JSON.parse, the failure of one segment
\* ends the stream with an error
HandleLine_Uncaught(sub, line) ==
    IF StartsWith(line, DataPrefix)
    THEN LET parsedEvent == JsonParse(Substring(line, 6))
         IN  IF parsedEvent = SyntaxError THEN SubjectError(sub, SyntaxError)
             ELSE SubjectNext(sub, parsedEvent)
    ELSE sub

\* faulty variant: the first six characters are cut off every segment,
\* whether it starts with the data prefix or not
HandleLine_NoPrefixCheck(sub, line) ==
    LET parsedEvent == JsonParse(Substring(line, 6))
    IN  IF parsedEvent = SyntaxError THEN sub ELSE SubjectNext(sub, parsedEvent)

\* body of the forEach callback for one segment
HandleLine(sub, line) ==
    IF StartsWith(line, DataPrefix)
    THEN LET parsedEvent == JsonParse(Substring(line, 6))
         IN  IF parsedEvent = SyntaxError THEN sub ELSE SubjectNext(sub, parsedEvent)
    ELSE sub

RECURSIVE ForEachLine(_, _)
ForEachLine(sub, lines) ==
    IF lines = <<>> THEN sub
    ELSE ForEachLine(HandleLine(sub, Head(lines)), Tail(lines))

\* next callback, branch HttpEventType.DownloadProgress
OnDownloadProgress(sub, text) == ForEachLine(sub, Split(text))

\* next callback, branch HttpEventType.Response
OnResponse(sub) == SubjectComplete(sub)

\* faulty variant: the failure is reported as an error StreamEvent and the
\* stream is completed
OnError_SyntheticEvent(sub, error) == SubjectComplete(SubjectNext(sub, "e"))

\* error callback
OnError(sub, error) == SubjectError(sub, error)

\* complete callback
OnComplete(sub) == SubjectComplete(sub)

\* XMLHttpRequest.responseText as HttpClient puts it in partialText: the
\* whole text received so far
PartialText(t, n) == SubSeq(t, 1, n)

\* no streamAnswer call has been made (the view of the producer alone)
ClientIdle ==
    /\ dispatching = 1
    /\ otherCalls = <<>>
    /\ buffer = <<>>
    /\ body = <<>>
    /\ status_ok = TRUE
    /\ received = 0
    /\ deliveries = 0
    /\ http = "idle"
    /\ subject = NewSubject

ClientInit ==
    /\ dispatching = 1
    /\ otherCalls = <<>>
    /\ buffer = <<>>
    /\ \/ status_ok = TRUE /\ \E es \in EventSeqs : body = Wire(es)
       \/ status_ok = FALSE /\ body = DetailBody
    /\ received = 0
    /\ deliveries = 0
    /\ http = "pending"
    /\ subject = NewSubject

\* more of the body arrives and HttpClient reports a DownloadProgress event
DownloadProgress ==
    /\ http = "pending"
    /\ deliveries < MaxDeliveries
    /\ \E n \in (received + 1)..Len(body) :
          /\ received' = n
          /\ subject' = OnDownloadProgress(subject, PartialText(body, n))
    /\ deliveries' = deliveries + 1
    /\ UNCHANGED <<body, status_ok, http>>
    /\ UNCHANGED <<pvars, xvars>>

\* the response ends with a 2xx status: HttpClient emits the Response event
HttpResponse ==
    /\ http = "pending"
    /\ status_ok
    /\ received = Len(body)
    /\ subject' = OnResponse(subject)
    /\ http' = "responded"
    /\ UNCHANGED <<body, status_ok, received, deliveries>>
    /\ UNCHANGED <<pvars, xvars>>

\* the response ends with a 2xx status and no DownloadProgress event has
\* reported the end of the text: it reaches the handler in event.body of
\* the Response event only, which the handler does not read
HttpResponseUnreported ==
    /\ http = "pending"
    /\ status_ok
    /\ received < Len(body)
    /\ subject' = OnResponse(subject)
    /\ http' = "responded"
    /\ UNCHANGED <<body, status_ok, received, deliveries>>
    /\ UNCHANGED <<pvars, xvars>>

\* after the Response event the HttpClient observable completes
HttpComplete ==
    /\ http = "responded"
    /\ subject' = OnComplete(subject)
    /\ http' = "completed"
    /\ UNCHANGED <<body, status_ok, received, deliveries>>
    /\ UNCHANGED <<pvars, xvars>>

\* the connection fails before the response has ended
NetworkError ==
    /\ http = "pending"
    /\ subject' = OnError(subject, "status 0")
    /\ http' = "errored"
    /\ UNCHANGED <<body, status_ok, received, deliveries>>
    /\ UNCHANGED <<pvars, xvars>>

\* the response ends with a non-2xx status: HttpClient signals an error
StatusError ==
    /\ http = "pending"
    /\ ~status_ok
    /\ received = Len(body)
    /\ subject' = OnError(subject, "status 4xx/5xx")
    /\ http' = "errored"
    /\ UNCHANGED <<body, status_ok, received, deliveries>>
    /\ UNCHANGED <<pvars, xvars>>

ClientNext ==
    \/ DownloadProgress
    \/ HttpResponse
    \/ HttpResponseUnreported
    \/ HttpComplete
    \/ NetworkError
    \/ StatusError

\* ------------------------------------------------------------------------
\* The buffering consumer InterviewService.streamAnswer of the integration
\* guide: it appends every delivery to a buffer, splits the buffer and keeps
\* the last, unterminated segment for the next delivery
\* ------------------------------------------------------------------------
\* String.prototype.trim
Trim(t) == TrimRight(TrimLeft(t))

\* events after events.pop(): all segments but the last
AllButLast(segs) == SubSeq(segs, 1, Len(segs) - 1)

\* faulty variant: the unterminated segment is dropped with the events
KeptBuffer_Dropped(segs) == <<>>

\* buffer = events.pop() || ''
KeptBuffer(segs) == segs[Len(segs)]

\* body of the forEach callback for one complete segment
HandleEventStr(sub, eventStr) ==
    IF StartsWith(Trim(eventStr), DataPrefix)
    THEN LET streamEvent == JsonParse(Substring(eventStr, 6))
         IN  IF streamEvent = SyntaxError THEN sub ELSE SubjectNext(sub, streamEvent)
    ELSE sub

RECURSIVE ForEachEventStr(_, _)
ForEachEventStr(sub, events) ==
    IF events = <<>> THEN sub
    ELSE ForEachEventStr(HandleEventStr(sub, Head(events)), Tail(events))

\* next callback, branch HttpEventType.DownloadProgress: the subject and the
\* buffer after the delivery of partialText
OnBufferedProgress(sub, buf, partialText) ==
    LET events == Split(buf \o partialText)
    IN  [subject |-> ForEachEventStr(sub, AllButLast(events)),
         buffer  |-> KeptBuffer(events)]

\* more of the body arrives; the delivery carries the newly received text
BufferedProgress ==
    /\ http = "pending"
    /\ deliveries < MaxDeliveries
    /\ \E n \in (received + 1)..Len(body) :
          LET after == OnBufferedProgress(subject, buffer, SubSeq(body, received + 1, n))
          IN  /\ received' = n
              /\ subject' = after.subject
              /\ buffer' = after.buffer
    /\ deliveries' = deliveries + 1
    /\ UNCHANGED <<body, status_ok, http>>
    /\ UNCHANGED <<svars, kvars, uvars>>

\* the Response event: the next callback has no branch for it
BufferedResponse ==
    /\ http = "pending"
    /\ status_ok
    /\ received = Len(body)
    /\ http' = "responded"
    /\ UNCHANGED <<body, status_ok, received, deliveries, subject>>
    /\ UNCHANGED <<pvars, xvars>>

\* complete callback
BufferedComplete ==
    /\ http = "responded"
    /\ subject' = SubjectComplete(subject)
    /\ http' = "completed"
    /\ UNCHANGED <<body, status_ok, received, deliveries>>
    /\ UNCHANGED <<pvars, xvars>>

\* error callback: the connection fails, or the status is not 2xx
BufferedError ==
    /\ http = "pending"
    /\ \/ subject' = SubjectError(subject, "status 0")
       \/ /\ ~status_ok
          /\ received = Len(body)
          /\ subject' = SubjectError(subject, "status 4xx/5xx")
    /\ http' = "errored"
    /\ UNCHANGED <<body, status_ok, received, deliveries>>
    /\ UNCHANGED <<pvars, xvars>>

BufferedNext ==
    \/ BufferedProgress
    \/ BufferedResponse
    \/ BufferedComplete
    \/ BufferedError

\* ------------------------------------------------------------------------
\* Responses that also hold segments the handler must not turn into events
\* ------------------------------------------------------------------------
\* a segment is an event, "x": the data prefix followed by invalid JSON, or
\* "c": a line that does not start with the data prefix
SegmentKinds == EventIds \cup {"x", "c"}

SegmentText(k) ==
    CASE k = "x" -> DataPrefix \o <<"{", "s">>
      [] k = "c" -> <<"e", "v", "e", "n", "t", ":", "{", "s", "}">>
      [] OTHER   -> DataPrefix \o <<"{", k, "}">>

RECURSIVE WireOf(_)
WireOf(ss) ==
    IF ss = <<>> THEN <<>> ELSE SegmentText(Head(ss)) \o Delimiter \o WireOf(Tail(ss))

SegmentSeqs == SeqsUpTo(SegmentKinds, MaxSegments) \ {<<>>}

\* a streamAnswer call whose response holds one to MaxSegments segments
SegmentsInit ==
    /\ dispatching = 1
    /\ otherCalls = <<>>
    /\ buffer = <<>>
    /\ status_ok = TRUE
    /\ \E ss \in SegmentSeqs : body = WireOf(ss)
    /\ received = 0
    /\ deliveries = 0
    /\ http = "pending"
    /\ subject = NewSubject

\* the response has a 2xx status
SegmentsNext ==
    \/ DownloadProgress
    \/ HttpResponse
    \/ HttpComplete
    \/ NetworkError

\* ------------------------------------------------------------------------
\* Several streamAnswer calls in flight, and a caller that unsubscribes:
\* every call creates its own Subject and issues its own POST; the browser
\* dispatches the HTTP events of the calls one at a time, in any order
\* ------------------------------------------------------------------------
\* the state of the call whose events are being dispatched
CurrentCall ==
    [id |-> dispatching, body |-> body, status_ok |-> status_ok,
     received |-> received, deliveries |-> deliveries, http |-> http,
     subject |-> subject]

\* the state of a call right after streamAnswer has returned
NewCall(i, es) ==
    [id |-> i, body |-> Wire(es), status_ok |-> TRUE, received |-> 0,
     deliveries |-> 0, http |-> "pending", subject |-> NewSubject]

\* faulty variant: the service keeps one Subject in a field that all calls use
CallSubject_Shared(c) == subject

\* the Subject is a local of the call
CallSubject(c) == c.subject

\* two calls have been made for different questions: their responses carry
\* different events
CallsInit ==
    /\ dispatching = 1
    /\ buffer = <<>>
    /\ \E e1 \in EventIds, e2 \in EventIds :
          /\ e1 # e2
          /\ body = Wire(<<e1>>)
          /\ otherCalls = <<NewCall(2, <<e2>>)>>
    /\ status_ok = TRUE
    /\ received = 0
    /\ deliveries = 0
    /\ http = "pending"
    /\ subject = NewSubject

\* the caller unsubscribes from the observable streamAnswer returned
Unsubscribe ==
    /\ http # "idle"
    /\ subject.subscribed
    /\ subject' = [subject EXCEPT !.subscribed = FALSE]
    /\ UNCHANGED <<body, status_ok, received, deliveries, http>>
    /\ UNCHANGED <<pvars, xvars>>

\* the next HTTP event or unsubscription belongs to another call
SwitchCall ==
    /\ otherCalls # <<>>
    /\ LET c == Head(otherCalls)
       IN  /\ dispatching' = c.id
           /\ body' = c.body
           /\ status_ok' = c.status_ok
           /\ received' = c.received
           /\ deliveries' = c.deliveries
           /\ http' = c.http
           /\ subject' = CallSubject(c)
    /\ otherCalls' = Append(Tail(otherCalls), CurrentCall)
    /\ UNCHANGED <<svars, bvars, uvars>>

\* both responses have a 2xx status
CallsNext ==
    \/ DownloadProgress
    \/ HttpResponse
    \/ HttpComplete
    \/ NetworkError
    \/ Unsubscribe
    \/ SwitchCall

\* ========================================================================
\* PART 3: the components that subscribe to streamAnswer
\*   InterviewRoomComponent (interview-room.component.ts),
\*   SearchComponent (search.component.ts) and FrequentComponent
\*   (frequent.component.ts), whose stream handling is the same code
\* ========================================================================
\* a field of an object that has not been assigned
Undefined == <<"undefined">>

UndefinedAgent == "undefined"

Blank == <<" ">>

\* the questions a user submits: each is written with one letter
UserQuestions == { q \in AcceptedQuestions : Cardinality(Letters(q)) = 1 }

OtherQuestion(q) == CHOOSE o \in UserQuestions : o # q

\* what the user may have typed when sendQuestion runs
TypedQuestions == UserQuestions \cup {Blank}

\* the response of the server to a question: the agent, the answer, cut in
\* chunks of one character, and the follow-up questions
ServerAgent(q) == IF Head(q) = "a" THEN "technical" ELSE "system_design"

ServerAnswer(q) == IF Head(q) = "a" THEN <<"a", "a">> ELSE <<"b">>

ServerFollowUps(q) == <<OtherQuestion(q)>>

StagesBeforeAnswer(q) ==
    <<Event("start", "none", <<>>, FALSE, q),
      Plain("routing", ServerAgent(q)),
      Plain("processing", ServerAgent(q))>>

\* the events of a run in which no step fails
AnsweredResponse(q) ==
    StagesBeforeAnswer(q)
        \o [k \in 1..Len(ServerAnswer(q)) |-> ContentEvent(ServerAnswer(q), k - 1, 1)]
        \o <<Event("answer_complete", ServerAgent(q), <<>>, FALSE, ServerAnswer(q)),
             Event("follow_ups", ServerAgent(q), <<>>, FALSE, ServerFollowUps(q)),
             Plain("complete", ServerAgent(q))>>

\* the events of a run in which answer generation fails: the payload of the
\* error event is {message: m}
FailedResponse(q) ==
    StagesBeforeAnswer(q) \o <<Event("error", ServerAgent(q), <<>>, FALSE, <<"m">>)>>

\* the same run told by a server that also puts a failure code in a field
\* named error: StreamEvent.data is untyped and two consumers provide for it
FailedResponseWithErrorField(q) ==
    StagesBeforeAnswer(q)
        \o <<[error |-> <<"x">>] @@ Event("error", ServerAgent(q), <<>>, FALSE, <<"m">>)>>

\* the events of a run that fails while the answer is being streamed, after
\* the first chunk
FailedAfterContent(q) ==
    StagesBeforeAnswer(q)
        \o <<ContentEvent(ServerAnswer(q), 0, 1),
             Event("error", ServerAgent(q), <<>>, FALSE, <<"m">>)>>

\* what the server may answer to q: the b-questions are served by the server
\* that adds the field error, the streaming of the answer to an a-question
\* may fail
ServerResponses(q) ==
    {AnsweredResponse(q)} \cup
        IF Head(q) = "a" THEN {FailedResponse(q), FailedAfterContent(q)}
        ELSE {FailedResponseWithErrorField(q)}

\* one streamAnswer call as its subscriber sees it: the events of the
\* response, how many of them have arrived, and what the call has passed on
NewStream(q, evs) ==
    [question |-> q, events |-> evs, seen |-> 0, deliveries |-> 0,
     http |-> "pending", subscribed |-> TRUE, chunks |-> <<>>]

Message(role, content, agentType) ==
    [role |-> role, content |-> content, agentType |-> agentType]

WelcomeText == <<"Welcome to the AI Interview Room! Ask any interview question and I will help you prepare.">>

ClearedText == <<"Conversation cleared. Ask a new question to start.">>

FailedToGetAnswerText == <<"Error: Failed to get answer. Please try again.">>

FailedFromApiText == <<"Failed to get answer from API. Please try again.">>

\* the InterviewRoomComponent before ngOnInit
RoomFields ==
    [messages |-> <<>>, currentAnswer |-> <<>>, isStreaming |-> FALSE,
     currentAgent |-> "", followUpQuestions |-> <<>>, conversationHistory |-> <<>>,
     streamingStatus |-> "", showRouting |-> FALSE, showProcessing |-> FALSE]

addSystemMessage(r, content) ==
    [r EXCEPT !.messages = Append(@, Message("system", content, UndefinedAgent))]

addUserMessage(r, content) ==
    [r EXCEPT !.messages = Append(@, Message("user", content, UndefinedAgent))]

addAgentMessage(r, content, agentType) ==
    [r EXCEPT !.messages = Append(@, Message("agent", content, agentType))]

RoomNgOnInit(r) == addSystemMessage(r, WelcomeText)

\* the initial streamingState of SearchComponent and FrequentComponent
NewStreamingState ==
    [isStreaming |-> FALSE, streamedAnswer |-> <<>>, followUpQuestions |-> <<>>,
     selectedAgent |-> UndefinedAgent, fullAnswer |-> Undefined, error |-> Undefined,
     processingMessage |-> Undefined]

SearchFields == [streamingState |-> NewStreamingState, streamSubscription |-> 0]

\* no component exists (the view of the service and of the server alone)
NoComponent ==
    /\ component = "none"
    /\ destroyed = FALSE
    /\ streams = <<>>
    /\ room = RoomFields
    /\ search = SearchFields

\* the router has created one of the three components and ngOnInit has run
ComponentInit ==
    /\ component \in {"room", "search", "frequent"}
    /\ destroyed = FALSE
    /\ streams = <<>>
    /\ room = IF component = "room" THEN RoomNgOnInit(RoomFields) ELSE RoomFields
    /\ search = SearchFields

\* data.message of a start or processing event
DataMessage(ev) ==
    CASE ev.event_type = "start" -> <<"Processing question...">>
      [] ev.event_type = "processing" -> <<"Generating answer...">>
      [] OTHER -> ev.text

\* data.error: the payload may have no such field
DataError(ev) == IF "error" \in DOMAIN ev THEN ev.error ELSE Undefined

\* the JavaScript expression a || b on texts
OrElse(a, b) == IF a \in {Undefined, <<>>} THEN b ELSE a

\* InterviewRoomComponent.handleStreamEvent
RoomHandleStreamEvent(r, ev) ==
    CASE ev.event_type = "start" ->
            [r EXCEPT !.streamingStatus = DataMessage(ev)[1]]
      [] ev.event_type = "routing" ->
            [r EXCEPT !.currentAgent = ev.agent,
                      !.showRouting = TRUE,
                      !.streamingStatus = "Routed to agent"]
      [] ev.event_type = "processing" ->
            [r EXCEPT !.showProcessing = TRUE,
                      !.streamingStatus = DataMessage(ev)[1]]
      [] ev.event_type = "content" ->
            [r EXCEPT !.currentAnswer = @ \o ev.chunk]
      [] ev.event_type = "answer_complete" ->
            [addAgentMessage([r EXCEPT !.currentAnswer = ev.text], ev.text, r.currentAgent)
                EXCEPT !.streamingStatus = "Answer complete"]
      [] ev.event_type = "follow_ups" ->
            [r EXCEPT !.followUpQuestions = ev.text]
      [] ev.event_type = "complete" ->
            [r EXCEPT !.streamingStatus = "Complete",
                      !.showRouting = FALSE,
                      !.showProcessing = FALSE]
      [] ev.event_type = "error" ->
            [addSystemMessage(r, <<"Error: ">> \o DataMessage(ev)) EXCEPT !.isStreaming = FALSE]

RECURSIVE RoomHandleAll(_, _)
RoomHandleAll(r, evs) ==
    IF evs = <<>> THEN r
    ELSE RoomHandleAll(RoomHandleStreamEvent(r, Head(evs)), Tail(evs))

\* error callback of the subscription made by sendQuestion
RoomOnError(r) ==
    addSystemMessage([r EXCEPT !.isStreaming = FALSE], FailedToGetAnswerText)

\* complete callback of the subscription made by sendQuestion for the
\* question currentQuestion
RoomOnComplete(r, currentQuestion) ==
    IF r.currentAnswer # <<>>
    THEN [r EXCEPT !.isStreaming = FALSE,
                   !.conversationHistory =
                       Append(@, [question |-> currentQuestion,
                                  answer |-> r.currentAnswer,
                                  agent |-> r.currentAgent])]
    ELSE [r EXCEPT !.isStreaming = FALSE]

\* faulty variant: the error text is read from data.error alone
SearchErrorText_ErrorFieldOnly(ev) == DataError(ev)

\* event.data.error || event.data.message
SearchErrorText(ev) == OrElse(DataError(ev), DataMessage(ev))

\* SearchComponent.handleStreamEvent and FrequentComponent.handleStreamEvent
SearchHandleStreamEvent(s, ev) ==
    CASE ev.event_type \in {"start", "processing"} ->
            [s EXCEPT !.streamingState.processingMessage = DataMessage(ev)]
      [] ev.event_type = "routing" ->
            [s EXCEPT !.streamingState.selectedAgent = ev.agent]
      [] ev.event_type = "content" ->
            [s EXCEPT !.streamingState.streamedAnswer = @ \o ev.chunk]
      [] ev.event_type = "answer_complete" ->
            [s EXCEPT !.streamingState.fullAnswer = ev.text,
                      !.streamingState.streamedAnswer = ev.text]
      [] ev.event_type = "follow_ups" ->
            [s EXCEPT !.streamingState.followUpQuestions = ev.text]
      [] ev.event_type = "complete" ->
            [s EXCEPT !.streamingState.isStreaming = FALSE]
      [] ev.event_type = "error" ->
            [s EXCEPT !.streamingState.error = SearchErrorText(ev),
                      !.streamingState.isStreaming = FALSE]

RECURSIVE SearchHandleAll(_, _)
SearchHandleAll(s, evs) ==
    IF evs = <<>> THEN s
    ELSE SearchHandleAll(SearchHandleStreamEvent(s, Head(evs)), Tail(evs))

\* handleStreamError
SearchOnError(s) ==
    [s EXCEPT !.streamingState.error = FailedFromApiText,
              !.streamingState.isStreaming = FALSE]

\* handleStreamComplete
SearchOnComplete(s) == [s EXCEPT !.streamingState.isStreaming = FALSE]

IsRoom == component = "room"

IsSearch == component \in {"search", "frequent"}

\* the user has asked q in this session
Asked(q) == \E k \in 1..Len(streams) : streams[k].question = q

\* sendQuestion with this.question = q: a blank question returns at once
SendQuestionAs(q) ==
    /\ IsRoom
    /\ ~destroyed
    /\ IF Trim(q) = <<>>
       THEN UNCHANGED <<room, streams>>
       ELSE /\ room' = [addUserMessage(room, q) EXCEPT
                            !.currentAnswer = <<>>,
                            !.followUpQuestions = <<>>,
                            !.isStreaming = TRUE,
                            !.showRouting = FALSE,
                            !.showProcessing = FALSE]
            /\ \E evs \in ServerResponses(q) :
                  streams' = Append(streams, NewStream(q, evs))
    /\ UNCHANGED <<component, destroyed, search>>
    /\ UNCHANGED nvars

\* the user types a question they have not asked before and sends it
SendQuestion == \E q \in TypedQuestions : ~Asked(q) /\ SendQuestionAs(q)

\* askFollowUp: the user picks one of the suggested follow-up questions, if
\* they have not asked it before
AskFollowUp ==
    \E k \in 1..Len(room.followUpQuestions) :
        ~Asked(room.followUpQuestions[k]) /\ SendQuestionAs(room.followUpQuestions[k])

\* faulty variant: clearConversation leaves the answer being streamed
ClearedRoom_KeepsAnswer(r) ==
    addSystemMessage([r EXCEPT !.messages = <<>>,
                               !.conversationHistory = <<>>,
                               !.followUpQuestions = <<>>],
                     ClearedText)

\* the fields of the room after clearConversation
ClearedRoom(r) ==
    addSystemMessage([r EXCEPT !.messages = <<>>,
                               !.conversationHistory = <<>>,
                               !.currentAnswer = <<>>,
                               !.followUpQuestions = <<>>],
                     ClearedText)

\* clearConversation
ClearConversation ==
    /\ IsRoom
    /\ ~destroyed
    /\ room' = ClearedRoom(room)
    /\ UNCHANGED <<component, destroyed, streams, search>>
    /\ UNCHANGED nvars

LowerCase(c) == CASE c = "A" -> "a" [] c = "B" -> "b" [] OTHER -> c

\* String.prototype.toLowerCase
ToLowerCase(t) == [k \in 1..Len(t) |-> LowerCase(t[k])]

\* what the user may have typed in the search box
TypedQueries ==
    { [q EXCEPT ![1] = IF @ = "b" THEN "B" ELSE @] : q \in UserQuestions } \cup {Blank}

\* faulty variant: resetStreamingState leaves the previous stream subscribed
UnsubscribePrevious_Kept(ss, s) == ss

\* resetStreamingState: this.streamSubscription.unsubscribe(), when set
UnsubscribePrevious(ss, s) ==
    IF s.streamSubscription # 0
    THEN [ss EXCEPT ![s.streamSubscription].subscribed = FALSE]
    ELSE ss

\* onSearch with this.searchQuery = typed: a blank query returns at once,
\* otherwise resetStreamingState and streamAnswerFromAPI run
OnSearchAs(typed) ==
    /\ IsSearch
    /\ ~destroyed
    /\ LET query == Trim(ToLowerCase(typed))
       IN  IF query = <<>>
           THEN UNCHANGED <<search, streams>>
           ELSE /\ search' = [streamingState |->
                                 [NewStreamingState EXCEPT !.isStreaming = TRUE],
                              streamSubscription |-> Len(streams) + 1]
                /\ \E evs \in ServerResponses(query) :
                      streams' = Append(UnsubscribePrevious(streams, search),
                                        NewStream(query, evs))
    /\ UNCHANGED <<component, destroyed, room>>
    /\ UNCHANGED nvars

\* the user types a query they have not searched before and searches
OnSearch ==
    \E typed \in TypedQueries : ~Asked(Trim(ToLowerCase(typed))) /\ OnSearchAs(typed)

\* selectFollowUpQuestion: the user picks one of the suggested follow-up
\* questions, if they have not searched it before
SelectFollowUpQuestion ==
    \E k \in 1..Len(search.streamingState.followUpQuestions) :
        /\ ~Asked(search.streamingState.followUpQuestions[k])
        /\ OnSearchAs(search.streamingState.followUpQuestions[k])

\* the events the service passes on at a DownloadProgress event when the
\* first n events of the response have arrived: it splits the whole
\* partialText again, so all n events are passed on
Batch(st, n) == SubSeq(st.events, 1, n)

BatchChunks(evs) == Flatten(ChunksOf(evs))

\* the DownloadProgress events dispatched so far to the calls k, k+1, ...
RECURSIVE ProgressEvents(_, _)
ProgressEvents(ss, k) ==
    IF k > Len(ss) THEN 0 ELSE ss[k].deliveries + ProgressEvents(ss, k + 1)

\* a DownloadProgress event of call i: the subscriber, if still subscribed,
\* handles every event of the batch in order
Deliver(i) ==
    /\ streams[i].http = "pending"
    /\ ProgressEvents(streams, 1) < MaxProgressEvents
    /\ \E n \in 1..Len(streams[i].events) :
          /\ n >= streams[i].seen
          /\ streams' = [streams EXCEPT
                            ![i].seen = n,
                            ![i].deliveries = @ + 1,
                            ![i].chunks = IF streams[i].subscribed
                                          THEN @ \o BatchChunks(Batch(streams[i], n))
                                          ELSE @]
          /\ room' = IF IsRoom /\ streams[i].subscribed
                     THEN RoomHandleAll(room, Batch(streams[i], n)) ELSE room
          /\ search' = IF IsSearch /\ streams[i].subscribed
                       THEN SearchHandleAll(search, Batch(streams[i], n)) ELSE search
    /\ UNCHANGED <<component, destroyed>>
    /\ UNCHANGED nvars

\* the Response event of call i: the service completes the subject
StreamCompletes(i) ==
    /\ streams[i].http = "pending"
    /\ streams[i].seen = Len(streams[i].events)
    /\ streams' = [streams EXCEPT ![i].http = "responded"]
    /\ room' = IF IsRoom /\ streams[i].subscribed
               THEN RoomOnComplete(room, streams[i].question) ELSE room
    /\ search' = IF IsSearch /\ streams[i].subscribed
                 THEN SearchOnComplete(search) ELSE search
    /\ UNCHANGED <<component, destroyed>>
    /\ UNCHANGED nvars

\* the request of call i fails: the service passes the error on
StreamFails(i) ==
    /\ streams[i].http = "pending"
    /\ streams' = [streams EXCEPT ![i].http = "errored"]
    /\ room' = IF IsRoom /\ streams[i].subscribed THEN RoomOnError(room) ELSE room
    /\ search' = IF IsSearch /\ streams[i].subscribed THEN SearchOnError(search) ELSE search
    /\ UNCHANGED <<component, destroyed>>
    /\ UNCHANGED nvars

\* takeUntil(this.destroy$): when destroy$ emits, every subscription that is
\* still open is completed, in the order the subscriptions were made, and
\* then unsubscribed
RECURSIVE TakeUntilDestroy(_, _, _)
TakeUntilDestroy(r, ss, k) ==
    IF k > Len(ss) THEN r
    ELSE TakeUntilDestroy(IF ss[k].subscribed /\ ss[k].http = "pending"
                          THEN RoomOnComplete(r, ss[k].question) ELSE r,
                          ss, k + 1)

\* faulty variant: ngOnDestroy leaves the subscriptions as they are
Unsubscribed_Not(st) == st

\* a subscription after takeUntil has fired or unsubscribe() was called
Unsubscribed(st) == [st EXCEPT !.subscribed = FALSE]

\* ngOnDestroy of the InterviewRoomComponent: destroy$.next(), destroy$.complete()
RoomNgOnDestroy ==
    /\ IsRoom
    /\ ~destroyed
    /\ destroyed' = TRUE
    /\ room' = TakeUntilDestroy(room, streams, 1)
    /\ streams' = [k \in 1..Len(streams) |-> Unsubscribed(streams[k])]
    /\ UNCHANGED <<component, search>>
    /\ UNCHANGED nvars

\* ngOnDestroy of the SearchComponent and of the FrequentComponent
SearchNgOnDestroy ==
    /\ IsSearch
    /\ ~destroyed
    /\ destroyed' = TRUE
    /\ streams' = [k \in 1..Len(streams) |->
                      IF k = search.streamSubscription
                      THEN Unsubscribed(streams[k]) ELSE streams[k]]
    /\ UNCHANGED <<component, room, search>>
    /\ UNCHANGED nvars

\* the browser dispatches the next HTTP event of one of the calls
StreamProgress == \E i \in 1..Len(streams) : Deliver(i)

StreamResponse == \E i \in 1..Len(streams) : StreamCompletes(i)

StreamError == \E i \in 1..Len(streams) : StreamFails(i)

ComponentNext ==
    \/ SendQuestion
    \/ AskFollowUp
    \/ ClearConversation
    \/ OnSearch
    \/ SelectFollowUpQuestion
    \/ StreamProgress
    \/ StreamResponse
    \/ StreamError
    \/ RoomNgOnDestroy
    \/ SearchNgOnDestroy

\* one run of the producer for an accepted question
InitProducer == ProducerInit /\ StreamRequest /\ ClientIdle /\ NoComponent

ProducerSpec == InitProducer /\ [][ProducerNext]_vars

\* one streamAnswer call of the consumer
InitClient == ClientInit /\ ProducerIdle /\ NoRequest /\ NoComponent

ClientSpec == InitClient /\ [][ClientNext]_vars

\* one request to either endpoint, from its reception on
InitEndpoint == EndpointInit /\ ClientIdle /\ NoComponent

EndpointSpec == InitEndpoint /\ [][EndpointNext]_vars

\* two requests to the streaming endpoint served concurrently
InitConcurrent == ConcurrentInit /\ ClientIdle /\ NoComponent

ConcurrentSpec == InitConcurrent /\ [][ConcurrentNext]_vars

\* one streamAnswer call of the buffering consumer
BufferedSpec == InitClient /\ [][BufferedNext]_vars

\* one streamAnswer call whose response holds segments of every kind
InitSegments == SegmentsInit /\ ProducerIdle /\ NoRequest /\ NoComponent

SegmentSpec == InitSegments /\ [][SegmentsNext]_vars

\* two streamAnswer calls in flight, whose callers may unsubscribe
InitCalls == CallsInit /\ ProducerIdle /\ NoRequest /\ NoComponent

CallsSpec == InitCalls /\ [][CallsNext]_vars

\* one component and the streams it starts
InitComponent == ComponentInit /\ ProducerIdle /\ NoRequest /\ ClientIdle

ComponentSpec == InitComponent /\ [][ComponentNext]_vars

\* what the subscriber was sent
Out == subject.out

IsNext(n) == n.kind = "next"

IsComplete(n) == n.kind = "complete"

IsError(n) == n.kind = "error"

\* the StreamEvents the subscriber was sent, in order
NextEvents == LET ns == SelectSeq(Out, IsNext) IN [k \in 1..Len(ns) |-> ns[k].ev]

\* the events of the response text, in order: the inverse of Wire
BodyEvents ==
    IF status_ok THEN CHOOSE es \in EventSeqs : Wire(es) = body ELSE <<>>

Occurrences(s, x) == Cardinality({ k \in 1..Len(s) : s[k] = x })

\* ========================================================================
\* PART 4: properties of the stream producer (checked under ProducerSpec)
\* ========================================================================
IsTerminal(ev) == ev.event_type \in TerminalTypes

NumOfType(t) == Cardinality({ k \in 1..Len(emitted) : emitted[k].event_type = t })

LastType == IF emitted = <<>> THEN "none" ELSE emitted[Len(emitted)].event_type

\* C1: the emitted sequence never holds two terminal events (complete and
\* error exclude each other, each at most once), no event follows a terminal
\* event, and a finished run holds exactly one terminal event, whichever
\* steps failed.
C1_OneTerminalEvent ==
    /\ NumOfType("complete") + NumOfType("error") <= 1
    /\ \A k \in 1..Len(emitted) : IsTerminal(emitted[k]) => k = Len(emitted)
    /\ ProducerDone <=> NumOfType("complete") + NumOfType("error") = 1

\* a finished successful run in which the routing and follow-up steps failed
C1_Witness ==
    /\ pc = "Completed"
    /\ failed = {"routing", "follow_ups"}
    /\ LastType = "complete"

C7_RoutingFallback ==
    "routing" \in failed =>
        /\ Len(emitted) >= 2
        /\ emitted[2] = Plain("routing", "technical")
        /\ agent = "technical"
        /\ "answer" \notin failed =>
              /\ NumOfType("error") = 0
              /\ pc # "Failed"
              /\ pc # "Completed" => ENABLED ProducerNext
              /\ pc = "Completed" => emitted[Len(emitted)] = Plain("complete", "technical")

\* the classification failed and the run still reached complete
C7_Witness ==
    /\ "routing" \in failed
    /\ "answer" \notin failed
    /\ pc = "Completed"
    /\ NumOfType("routing") = 1

\* the fixed order of a run with k content events in which no step fails
FixedOrder(k) ==
    <<"start", "routing", "processing">> \o [j \in 1..k |-> "content"]
        \o <<"answer_complete", "follow_ups", "complete">>

\* the emitted event types without a trailing error event
TypesBeforeError ==
    IF LastType = "error" THEN SubSeq(Types(emitted), 1, Len(emitted) - 1)
    ELSE Types(emitted)

\* C8: in every run the emitted events form a prefix of the fixed order
\* start, routing, processing, content*, answer_complete, follow_ups,
\* complete, followed at most by error; a run that ends without error
\* emitted the whole order.
C8_FixedOrder ==
    /\ \E k \in 0..Len(answer) : IsPrefixOf(TypesBeforeError, FixedOrder(k))
    /\ pc = "Completed" => \E k \in 0..Len(answer) : Types(emitted) = FixedOrder(k)

\* a finished run without any failing step and with at least two chunks
C8_Witness ==
    /\ pc = "Completed"
    /\ failed = {}
    /\ NumOfType("content") >= 2
    /\ NumOfType("answer_complete") = 1

ContentIdx == { k \in 1..Len(emitted) : emitted[k].event_type = "content" }

ChunksBefore(k) ==
    LET cs == SelectSeq(SubSeq(emitted, 1, k - 1), LAMBDA ev : ev.event_type = "content")
    IN  [j \in 1..Len(cs) |-> cs[j].chunk]

\* C10: the chunk fields of the content events of a run, concatenated in
\* emission order, give exactly the full_answer of the answer_complete event
\* that follows them, for every answer text and chunk length.
C10_ChunksReproduceAnswer ==
    \A k \in 1..Len(emitted) :
        emitted[k].event_type = "answer_complete" =>
            /\ Flatten(ChunksBefore(k)) = emitted[k].text
            /\ emitted[k].text = answer

\* an answer whose length is no multiple of the chunk length was streamed
C10_Witness ==
    /\ NumOfType("answer_complete") = 1
    /\ chunk_size = 2
    /\ Len(answer) = 3
    /\ NumOfType("content") = 2

\* ========================================================================
\* PART 5: properties of the stream consumer (checked under ClientSpec)
\* ========================================================================
NumOut(kind) == Cardinality({ k \in 1..Len(Out) : Out[k].kind = kind })

LastOut == IF Out = <<>> THEN [kind |-> "none", ev |-> "-"] ELSE Out[Len(Out)]

\* C2 as stated: when the response text reached the handler in two
\* successive deliveries, whatever the place of the split, the subscriber
\* was sent exactly the events of the response, each once and in order.
C2_TwoDeliveriesYieldEachEventOnce ==
    (status_ok /\ deliveries = 2 /\ received = Len(body)) => NextEvents = BodyEvents

\* C3 as stated: no event is replayed; the subscriber is sent an event at
\* most as often as the response holds it.
C3_NoEventReplayed ==
    \A e \in EventIds : Occurrences(NextEvents, e) <= Occurrences(BodyEvents, e)

\* C4: once the HTTP response has completed normally the subscriber has
\* received the completion signal exactly once, also after the observable's
\* own completion; it is the last thing the subscriber is sent and no error
\* is sent.
C4_CompletionExactlyOnce ==
    /\ NumOut("complete") <= 1
    /\ \A k \in 1..Len(Out) : IsComplete(Out[k]) => k = Len(Out)
    /\ http \in {"responded", "completed"} =>
          /\ NumOut("complete") = 1
          /\ NumOut("error") = 0
          /\ subject.isStopped

\* the Response event and the completion of the observable were both handled
C4_Witness ==
    /\ http = "completed"
    /\ NumOut("next") >= 1
    /\ LastOut.kind = "complete"

\* C5: after a transport failure the subscriber has received the failure
\* signal exactly once, as the last thing it is sent, and no completion;
\* and every StreamEvent it is ever sent is an event of the response text
\* (the service makes up no error event).
C5_FailureExactlyOnce ==
    /\ NumOut("error") <= 1
    /\ \A k \in 1..Len(Out) : IsError(Out[k]) => k = Len(Out)
    /\ http = "errored" =>
          /\ NumOut("error") = 1
          /\ NumOut("complete") = 0
          /\ subject.isStopped
    /\ \A k \in 1..Len(NextEvents) : Occurrences(BodyEvents, NextEvents[k]) >= 1

\* the connection failed after an event was delivered, and the server sent
\* no error event
C5_Witness ==
    /\ http = "errored"
    /\ NumOut("next") >= 1
    /\ Occurrences(BodyEvents, "e") = 0
    /\ LastOut.kind = "error"

\* ========================================================================
\* PART 6: properties of the endpoints (checked under EndpointSpec)
\* ========================================================================
\* C11: a question shorter than the configured minimum length is rejected
\* before the pipeline starts: once validated, the reply of either endpoint
\* is HTTP 400 with a detail message, and the streaming endpoint has emitted
\* no StreamEvent at all, at any time of the run
C11_ShortQuestionRejected ==
    Len(question) < MinQuestionLength =>
        /\ emitted = <<>>
        /\ pc \in {"Received", "Rejected"}
        /\ pc = "Rejected" => reply.status = 400 /\ reply.detail # ""

C11_Witness ==
    /\ Len(question) < MinQuestionLength
    /\ endpoint = "stream"
    /\ pc = "Rejected"
    /\ reply = BadRequest

\* ------------------------------------------------------------------------
\* properties of concurrent requests (checked under ConcurrentSpec)
\* ------------------------------------------------------------------------
\* the tasks of the two requests, with the events each has put on its own
\* connection
Tasks == {RunningTask} \cup { suspended[k] : k \in 1..Len(suspended) }

TypeCount(evs, t) == Cardinality({ k \in 1..Len(evs) : evs[k].event_type = t })

\* the single-request properties of the sequence of one connection: one
\* start as the first event, the fixed order of stages, at most one terminal
\* event, which is the last one and is there when the task has ended
SingleRequestOrder(t) ==
    LET evs == t.emitted
        types == Types(evs)
        body_types == IF evs # <<>> /\ types[Len(evs)] = "error"
                      THEN SubSeq(types, 1, Len(evs) - 1) ELSE types
    IN  /\ t.pc # "Accepted" => TypeCount(evs, "start") = 1 /\ types[1] = "start"
        /\ \E k \in 0..Len(t.answer) : IsPrefixOf(body_types, FixedOrder(k))
        /\ TypeCount(evs, "complete") + TypeCount(evs, "error") <= 1
        /\ \A k \in 1..Len(evs) : IsTerminal(evs[k]) => k = Len(evs)
        /\ t.pc \in {"Completed", "Failed"} <=>
               TypeCount(evs, "complete") + TypeCount(evs, "error") = 1

\* every event of the connection carries the data of its own request: the
\* question it echoes, the agent chosen for it, the chunks of its answer
OwnEventsOnly(t) ==
    LET evs == t.emitted
    IN  /\ \A k \in 1..Len(evs) :
              /\ evs[k].event_type = "start" => evs[k].text = t.question
              /\ evs[k].event_type \in {"routing", "processing", "complete"} =>
                     evs[k].agent = t.agent
              /\ evs[k].event_type = "answer_complete" =>
                     evs[k].text = t.answer /\ Flatten(ChunksOf(evs)) = t.answer
              /\ Letters(evs[k].chunk) \subseteq Letters(t.question)
        /\ IsPrefixOf(Flatten(ChunksOf(evs)), t.answer)

\* C12: when two streaming requests with different questions are served
\* concurrently, under any interleaving of their steps, the sequence on each
\* connection satisfies the single-request properties (one start, ordered
\* stages, one terminal event), and it holds only events of its own request:
\* no question, agent choice or chunk of the other request appears in it
C12_ConcurrentRequestsIndependent ==
    \A t \in Tasks : SingleRequestOrder(t) /\ OwnEventsOnly(t)

\* both requests have completed with different agents and different
\* answers, and the first one ended after the second had started streaming
C12_Witness ==
    /\ suspended # <<>>
    /\ pc = "Completed"
    /\ suspended[1].pc = "Completed"
    /\ agent # suspended[1].agent
    /\ answer # suspended[1].answer
    /\ Len(answer) >= 2
    /\ Len(suspended[1].answer) >= 2

\* ========================================================================
\* PART 7: properties of concurrent streamAnswer calls and of unsubscribing
\* (checked under CallsSpec)
\* ========================================================================
CallIds == {dispatching} \cup { otherCalls[k].id : k \in 1..Len(otherCalls) }

\* the state of call i
Call(i) ==
    IF dispatching = i THEN CurrentCall
    ELSE LET k == CHOOSE j \in 1..Len(otherCalls) : otherCalls[j].id = i
         IN  otherCalls[k]

KindCount(out, kind) == Cardinality({ k \in 1..Len(out) : out[k].kind = kind })

\* C13: a subscriber that has unsubscribed from the observable of a
\* streamAnswer call receives no event, error or completion afterwards, and
\* neither the unsubscription nor any other step of one call changes what
\* the subscriber of another call in flight has received or will receive:
\* every step changes the state (Subject and HTTP request) of its own call
\* only
C13_UnsubscribeStopsDelivery ==
    [][\A i \in CallIds :
          /\ ~Call(i).subject.subscribed =>
                 /\ ~Call(i)'.subject.subscribed
                 /\ Call(i)'.subject.out = Call(i).subject.out
          /\ Call(i)' # Call(i) => dispatching = i /\ dispatching' = i]_vars

\* one call completed after its subscriber had unsubscribed, so that the
\* completion was not passed on, while the subscriber of the other call
\* received its event and its completion
C13_Witness ==
    /\ otherCalls # <<>>
    /\ ~subject.subscribed
    /\ http = "completed"
    /\ KindCount(subject.out, "complete") = 0
    /\ otherCalls[1].subject.subscribed
    /\ otherCalls[1].http = "completed"
    /\ KindCount(otherCalls[1].subject.out, "complete") = 1
    /\ KindCount(otherCalls[1].subject.out, "next") >= 1

\* ========================================================================
\* PART 8: properties of the handling of segments (checked under SegmentSpec)
\* ========================================================================
\* the segments of the response text, in order: the inverse of WireOf
RECURSIVE SegmentsOf(_)
SegmentsOf(t) ==
    IF t = <<>> THEN <<>>
    ELSE LET k == CHOOSE c \in SegmentKinds : IsPrefixOf(SegmentText(c) \o Delimiter, t)
         IN  <<k>> \o SegmentsOf(SubSeq(t, Len(SegmentText(k)) + Len(Delimiter) + 1, Len(t)))

BodySegments == SegmentsOf(body)

\* number of characters of a well-formed segment that make up its data
\* prefix and its whole JSON document
DocumentLen == Len(DataPrefix) + 3

\* the events of the well-formed segments of ss whose JSON document lies
\* within the first n characters of the text, in text order
RECURSIVE WellFormedWithin(_, _)
WellFormedWithin(ss, n) ==
    IF ss = <<>> THEN <<>>
    ELSE (IF Head(ss) \in EventIds /\ DocumentLen <= n THEN <<Head(ss)>> ELSE <<>>)
         \o WellFormedWithin(Tail(ss), n - Len(SegmentText(Head(ss))) - Len(Delimiter))

IsSuffixOf(p, s) == Len(p) <= Len(s) /\ SubSeq(s, Len(s) - Len(p) + 1, Len(s)) = p

HasMalformed == \E k \in 1..Len(BodySegments) : BodySegments[k] = "x"

\* C14: a segment that starts with the data prefix but holds invalid JSON is
\* dropped without effect: while the request is pending the subject has
\* neither errored nor completed, and the latest delivery has still emitted,
\* in order, every well-formed segment of its text, those before and those
\* after the malformed one, in the first delivery as in later ones
C14_MalformedSegmentDropped ==
    HasMalformed =>
        /\ http = "pending" =>
               ~subject.isStopped /\ \A k \in 1..Len(Out) : IsNext(Out[k])
        /\ deliveries > 0 =>
               IsSuffixOf(WellFormedWithin(BodySegments, received), NextEvents)

\* the response start, malformed, complete was delivered twice, whole the
\* second time: both deliveries emitted the events around the malformed one
C14_Witness ==
    /\ BodySegments = <<"s", "x", "e">>
    /\ deliveries = 2
    /\ received = Len(body)
    /\ http = "pending"
    /\ NextEvents = <<"s", "e", "s", "e">>

\* the StreamEvents the step has passed to the subscriber
NewEvents == SubSeq(NextEvents', Len(NextEvents) + 1, Len(NextEvents'))

\* C15: each download-progress delivery emits, in text order, exactly one
\* event per segment of the delivered text that starts with the data prefix
\* and parses as JSON, and nothing for the other segments (a segment without
\* the prefix, invalid JSON, the empty segment after the last delimiter);
\* no other step emits an event
C15_OneEventPerParsedSegment ==
    [][NewEvents = IF deliveries' = deliveries + 1
                   THEN WellFormedWithin(BodySegments, received')
                   ELSE <<>>]_vars

\* a delivery of the whole text event-line, start, complete has emitted
\* start and complete and nothing for the line without the data prefix
C15_Witness ==
    /\ BodySegments = <<"c", "s", "e">>
    /\ deliveries = 1
    /\ received = Len(body)
    /\ NextEvents = <<"s", "e">>

\* ========================================================================
\* PART 9: properties of the buffering consumer (checked under BufferedSpec)
\* ========================================================================
\* number of events of the response whose frame, delimiter included, lies
\* within the first n characters
FramesWithin(n) == n \div Len(Frame("s"))

\* C16: when each delivery carries only the newly received text, the
\* buffering consumer has emitted, at every moment and for every cutting of
\* the response into deliveries (also inside the delimiter or inside the
\* data prefix), exactly the events whose frame has been received whole,
\* each once and in the order of the response; the rest of the text is in
\* the buffer
C16_BufferedEmitsEachEventOnce ==
    status_ok =>
        /\ NextEvents = SubSeq(BodyEvents, 1, FramesWithin(received))
        /\ buffer = SubSeq(body, FramesWithin(received) * Len(Frame("s")) + 1, received)

\* a response of two events was delivered in three parts and has completed:
\* both events were emitted, each once
C16_Witness ==
    /\ BodyEvents = <<"s", "e">>
    /\ deliveries = 3
    /\ received = Len(body)
    /\ buffer = <<>>
    /\ NextEvents = <<"s", "e">>
    /\ http = "completed"

\* ========================================================================
\* PART 10: properties of the components (checked under ComponentSpec)
\* ========================================================================
StreamIds == 1..Len(streams)

\* the events of a stream that have arrived
Arrived(st) == SubSeq(st.events, 1, st.seen)

\* the answer streamed so far for the question of a stream
StreamedAnswer(st) == BatchChunks(Arrived(st))

\* the agent the server named in the routing event of a stream
RoutedAgent(st) ==
    LET rs == SelectSeq(Arrived(st), LAMBDA ev : ev.event_type = "routing")
    IN  IF rs = <<>> THEN "" ELSE rs[1].agent

\* this step is the completion of stream i, whose subscriber is the room
RoomStreamCompletes(i) ==
    /\ IsRoom
    /\ Len(streams') = Len(streams)
    /\ streams[i].subscribed
    /\ streams[i].http = "pending"
    /\ streams'[i].http = "responded"

HistoryEntry(st) ==
    [question |-> st.question, answer |-> StreamedAnswer(st), agent |-> RoutedAgent(st)]

\* C17: when a stream of the InterviewRoomComponent completes and an answer
\* was streamed for its question, exactly one entry is appended to
\* conversationHistory, made of that question and of the answer and agent
\* streamed for it, also when other questions were sent in the meantime
C17_HistoryPairsOwnAnswer ==
    [][\A i \in StreamIds :
          RoomStreamCompletes(i) /\ StreamedAnswer(streams[i]) # <<>> =>
              room'.conversationHistory =
                  Append(room.conversationHistory, HistoryEntry(streams[i]))]_vars

\* the events of the given type among evs
OfType(evs, type) == SelectSeq(evs, LAMBDA ev : ev.event_type = type)

\* the question sent last, when the room still listens to its stream
LastStream == streams[Len(streams)]

\* between sendQuestion and answer_complete, currentAnswer is made of the
\* chunks received for the question sent last
AnswerIsChunksReceived ==
    IsRoom /\ streams # <<>> /\ LastStream.subscribed
           /\ OfType(Arrived(LastStream), "answer_complete") = <<>> =>
        room.currentAnswer = LastStream.chunks

\* this step delivers to the room a batch of stream i that holds the
\* answer_complete event
AnswerCompleteHandled(i) ==
    /\ IsRoom
    /\ Len(streams') = Len(streams)
    /\ streams[i].subscribed
    /\ streams'[i].deliveries = streams[i].deliveries + 1
    /\ OfType(Arrived(streams'[i]), "answer_complete") # <<>>

FullAnswer(st) == OfType(st.events, "answer_complete")[1].text

\* C18: between sendQuestion and the answer_complete event currentAnswer is
\* the concatenation, in arrival order, of the chunks of the content events
\* received for that question; right after answer_complete was handled
\* currentAnswer is its full_answer and an agent message with that text and
\* the current agent has been appended to messages
C18_AnswerAccumulatesThenFinal ==
    [][/\ AnswerIsChunksReceived'
       /\ \A i \in StreamIds :
             AnswerCompleteHandled(i) =>
                 /\ room'.currentAnswer = FullAnswer(streams[i])
                 /\ Len(room'.messages) > Len(room.messages)
                 /\ \E k \in Len(room.messages) + 1..Len(room'.messages) :
                       room'.messages[k] =
                           Message("agent", FullAnswer(streams[i]), room'.currentAgent)]_vars

\* C19: once ngOnDestroy of the component has run, no event, transport
\* error or completion of a stream it started changes a field of the
\* component (messages, currentAnswer, conversationHistory, isStreaming,
\* streamingState)
C19_NoChangeAfterDestroy ==
    [][destroyed => room' = room /\ search' = search]_vars

\* the room was destroyed right after a question was sent; the whole answer
\* arrived and the response ended afterwards: nothing of it is in the fields
C19_Witness ==
    /\ IsRoom
    /\ destroyed
    /\ Len(streams) = 1
    /\ streams[1].events = AnsweredResponse(streams[1].question)
    /\ streams[1].seen = Len(streams[1].events)
    /\ streams[1].http = "responded"
    /\ room.messages = <<Message("system", WelcomeText, UndefinedAgent),
                         Message("user", streams[1].question, UndefinedAgent)>>
    /\ room.currentAnswer = <<>>
    /\ room.conversationHistory = <<>>
    /\ room.currentAgent = ""

\* this step delivers to the component a batch of stream i that holds the
\* error event of the server
ErrorEventHandled(i) ==
    /\ Len(streams') = Len(streams)
    /\ streams[i].subscribed
    /\ streams'[i].deliveries = streams[i].deliveries + 1
    /\ OfType(Arrived(streams'[i]), "error") # <<>>

\* the field message of the payload of the error event of a stream
ErrorMessage(st) == OfType(st.events, "error")[1].text

\* C20: a component that handles an error event of the server stops showing
\* the stream as active and records the text of the payload field message:
\* the room appends one system message "Error: m", SearchComponent and
\* FrequentComponent set streamingState.error to m; every call site takes
\* the text from that same field
C20_ErrorTextFromMessageField ==
    [][\A i \in StreamIds :
          ErrorEventHandled(i) =>
              IF IsRoom
              THEN /\ room'.isStreaming = FALSE
                   /\ room'.messages =
                          Append(room.messages,
                                 Message("system",
                                         <<"Error: ">> \o ErrorMessage(streams[i]),
                                         UndefinedAgent))
              ELSE /\ search'.streamingState.isStreaming = FALSE
                   /\ search'.streamingState.error = ErrorMessage(streams[i])]_vars

\* C21: right after clearConversation, whatever the state before, messages
\* holds exactly the system message "Conversation cleared. Ask a new
\* question to start.", conversationHistory is empty, currentAnswer is the
\* empty string and followUpQuestions is empty
C21_ClearResetsConversation ==
    [][ClearConversation =>
          /\ room'.messages = <<Message("system", ClearedText, UndefinedAgent)>>
          /\ room'.conversationHistory = <<>>
          /\ room'.currentAnswer = <<>>
          /\ room'.followUpQuestions = <<>>]_vars

\* the conversation was cleared after a question had been answered and its
\* stream had ended
C21_Witness ==
    /\ IsRoom
    /\ ~destroyed
    /\ Len(streams) = 1
    /\ streams[1].events = AnsweredResponse(streams[1].question)
    /\ streams[1].http = "responded"
    /\ room.currentAgent = ServerAgent(streams[1].question)
    /\ room.streamingStatus = "Complete"
    /\ room.messages = <<Message("system", ClearedText, UndefinedAgent)>>
    /\ room.conversationHistory = <<>>
    /\ room.currentAnswer = <<>>
    /\ room.followUpQuestions = <<>>

\* this step delivers events of stream i to the room although a later
\* question has been sent
EarlierStreamDelivers(i) ==
    /\ IsRoom
    /\ Len(streams') = Len(streams)
    /\ i < Len(streams)
    /\ streams[i].subscribed
    /\ streams'[i].deliveries = streams[i].deliveries + 1

\* C22: in the InterviewRoomComponent currentAnswer holds text of the
\* question sent last only, and once a later question has been sent no
\* event of an earlier stream changes currentAnswer, currentAgent,
\* followUpQuestions or messages
C22_EarlierStreamIsSilent ==
    [][/\ IsRoom' /\ streams' # <<>> =>
              Letters(room'.currentAnswer) \subseteq Letters(streams'[Len(streams')].question)
       /\ \A i \in StreamIds :
             EarlierStreamDelivers(i) =>
                 /\ room'.currentAnswer = room.currentAnswer
                 /\ room'.currentAgent = room.currentAgent
                 /\ room'.followUpQuestions = room.followUpQuestions
                 /\ room'.messages = room.messages]_vars

\* the streams whose subscription is open
LiveStreams == { i \in StreamIds : streams[i].subscribed /\ streams[i].http = "pending" }

\* C23: in SearchComponent and FrequentComponent a new search unsubscribes
\* the previous stream before it subscribes to the new one: at most one
\* subscription is live at any time, and streamingState is changed only by
\* the start of a search and by events of the most recent search
C23_OnlyLatestSearchIsLive ==
    [][/\ IsSearch' => Cardinality(LiveStreams') <= 1
       /\ IsSearch /\ search' # search /\ Len(streams') = Len(streams) =>
              /\ streams # <<>>
              /\ streams'[Len(streams)] # streams[Len(streams)]
              /\ \A i \in 1..Len(streams) - 1 : streams'[i] = streams[i]]_vars

\* a second search was started while the first was in flight; the whole
\* response of the first arrived afterwards and none of it was handled, the
\* response of the second was handled
C23_Witness ==
    /\ IsSearch
    /\ Len(streams) = 2
    /\ ~streams[1].subscribed
    /\ streams[1].events = AnsweredResponse(streams[1].question)
    /\ streams[1].seen = Len(streams[1].events)
    /\ streams[1].chunks = <<>>
    /\ streams[2].subscribed
    /\ streams[2].seen = Len(streams[2].events)
    /\ search.streamingState.fullAnswer = ServerAnswer(streams[2].question)
    /\ search.streamingState.selectedAgent = ServerAgent(streams[2].question)
    /\ search.streamSubscription = 2

\* the agent messages in the chat that carry the answer to question q
AgentMessagesFor(q) ==
    SelectSeq(room.messages,
              LAMBDA m : m.role = "agent" /\ m.content = ServerAnswer(q))

\* C24: for each question sent from the InterviewRoomComponent at most one
\* agent message is appended to messages, in however many DownloadProgress
\* deliveries the response arrives
C24_OneAgentMessagePerQuestion ==
    IsRoom => \A i \in StreamIds : Len(AgentMessagesFor(streams[i].question)) <= 1

\* C26: conversationHistory of the InterviewRoomComponent gains an entry
\* only when a stream ends successfully: none for a stream that fails at
\* transport level, none for a stream in which the server emitted an error
\* event after content chunks, so that no partial answer is recorded
C26_HistoryOnlyOnSuccess ==
    [][IsRoom /\ Len(room'.conversationHistory) > Len(room.conversationHistory) =>
          \E i \in StreamIds :
              /\ RoomStreamCompletes(i)
              /\ OfType(streams[i].events, "error") = <<>>]_vars

\* the messages of the chat with the given role
WithRole(role) == SelectSeq(room.messages, LAMBDA m : m.role = role)

\* the conversation was cleared and no question has been sent since
ClearedAndNothingSent ==
    /\ IsRoom
    /\ room.messages # <<>>
    /\ room.messages[1] = Message("system", ClearedText, UndefinedAgent)
    /\ WithRole("user") = <<>>

\* C27: from clearConversation until the user sends a new question
\* conversationHistory stays empty and messages gains no agent message,
\* also when a stream started before the clear delivers events or completes
\* afterwards
C27_ClearedStaysCleared ==
    ClearedAndNothingSent =>
        /\ room.conversationHistory = <<>>
        /\ WithRole("agent") = <<>>

\* ========================================================================
\* PART 11: the end of the response (checked under ClientSpec)
\* ========================================================================
\* C25: when the subscriber of a streamAnswer call is sent the completion
\* signal, every complete event of the response body has been delivered to
\* it at least once, also the events whose text arrived with the final
\* Response only and was in no DownloadProgress delivery
C25_AllEventsBeforeCompletion ==
    status_ok /\ NumOut("complete") > 0 =>
        \A k \in 1..Len(BodyEvents) : Occurrences(NextEvents, BodyEvents[k]) >= 1
====
